---- MODULE Spec2Model ----
(***************************************************************************)
(* Model of falcon's TabularTaskManager (falcon/tabular/tabular_manager.py) *)
(* and of the configuration registries (falcon/tabular/configurations.py). *)
(*                                                                         *)
(* A Python dict is a TLA+ function over its keys, None is << >> and a     *)
(* present optional value v is <<v>>.  Objects that can be aliased (the    *)
(* pipelines) live in `heap` and are named by references.                  *)
(***************************************************************************)
EXTENDS Integers, Sequences, FiniteSets, TLC

VARIABLES
    task,              \* self.task
    data,              \* self._data = (X, y, mask)
    options,           \* the options the pipeline was constructed with
    profile,           \* the configuration the constructor arguments came from
    heap,              \* the pipeline objects: "primary" is self._pipeline
    env,               \* os.environ["FALCON_VERBOSITYLEVEL"]: << >> or <<level>>
    pc,                \* position inside train; "idle" between calls
    frame,             \* train's locals: pre_eval, old_verbosity_level, ...
    call,              \* what the current (or last) train call has done so far
    last,              \* the last completed operation and its outcome
    prev,              \* the completed operation before `last`
    ops                \* number of operations started

vars == <<task, data, options, profile, heap, env, pc, frame, call, last, prev, ops>>

-----------------------------------------------------------------------------
(* Bounds of the model *)

MaxOps == 3            \* operations (train / predict / evaluate) per run
MaxVerbosity == 2      \* verbosity levels 0..MaxVerbosity in the environment

(* Program constants *)

CellThreshold == 50000     \* rows * cols below this: cross validation
RowThreshold == 500        \* rows below this: cross validation
DefaultVerbosity == 1      \* os.getenv("FALCON_VERBOSITYLEVEL", "1")
SilentLevel == 0           \* set_verbosity_level(0)
TestPercent == 25          \* train_test_split(..., test_size=0.25)

None == << >>
Some(v) == <<v>>
EmptyDict == [k \in {} |-> 0]

TaskTypes == {"tabular_classification", "tabular_regression"}

-----------------------------------------------------------------------------
(* Datasets.  A raw dataset is where it comes from (`form`), its number    *)
(* of rows and feature columns, the rows the cleaning step drops, the      *)
(* columns the mask detector finds categorical and the shape of the        *)
(* target (1-D or an n x 1 column).                                        *)

TrainSets ==
    { [id |-> "d400x3",    form |-> "path",      rows |-> 400,  cols |-> 3,   invalid |-> 0, cat |-> {2},    ydim |-> 1],
      [id |-> "d499x200",  form |-> "ndarray",   rows |-> 499,  cols |-> 200, invalid |-> 0, cat |-> {},     ydim |-> 1],
      [id |-> "d500x99",   form |-> "dataframe", rows |-> 500,  cols |-> 99,  invalid |-> 0, cat |-> {1, 99}, ydim |-> 2],
      [id |-> "d500x100",  form |-> "dataframe", rows |-> 500,  cols |-> 100, invalid |-> 0, cat |-> {100},  ydim |-> 2],
      [id |-> "d501x100",  form |-> "path",      rows |-> 501,  cols |-> 100, invalid |-> 2, cat |-> {1},    ydim |-> 1],
      [id |-> "d1000x50",  form |-> "ndarray",   rows |-> 1000, cols |-> 50,  invalid |-> 0, cat |-> {1, 2}, ydim |-> 1] }

\* test sets have the feature count of the training data
TestSets(cols) ==
    { [id |-> "t100", form |-> "path",      rows |-> 100, cols |-> cols, invalid |-> 0, cat |-> {1}, ydim |-> 2],
      [id |-> "t40",  form |-> "dataframe", rows |-> 40,  cols |-> cols, invalid |-> 3, cat |-> {},  ydim |-> 1] }

\* feature-only inputs of predict: one of the training width, one a column wider
PredictInputs(cols) ==
    { [src |-> "p10", form |-> "path", rows |-> 10, cols |-> cols],
      [src |-> "p10wide", form |-> "ndarray", rows |-> 10, cols |-> cols + 1] }

\* read_data: a path is loaded into an in-memory table
read_data(d) == [d EXCEPT !.form = "dataframe"]

\* split_features with features = target = None: last column is the target
split_features(d) ==
    [X |-> [src |-> d.id, form |-> d.form, rows |-> d.rows, cols |-> d.cols, cat |-> d.cat,
            invalid |-> d.invalid],
     y |-> [src |-> d.id, rows |-> d.rows, dim |-> d.ydim, invalid |-> d.invalid]]

\* clean_data_split: rows with invalid values are dropped from X and y alike
clean_data_split(s) ==
    [X |-> [src |-> s.X.src, form |-> s.X.form, rows |-> s.X.rows - s.X.invalid, cols |-> s.X.cols,
            cat |-> s.X.cat],
     y |-> [src |-> s.y.src, rows |-> s.y.rows - s.y.invalid, dim |-> s.y.dim]]

\* a List[bool] of length len whose true positions are `cat`
get_cat_mask(X) == [len |-> X.cols, cat |-> X.cat]
EmptyMask == [len |-> 0, cat |-> {}]

\* faulty variant: the mask is computed whatever `training` says
_prepare_data_always_mask(d, training) ==
    LET loaded == IF d.form = "path" THEN read_data(d) ELSE d
        s == clean_data_split(split_features(loaded))
    IN  [X |-> s.X,
         y |-> IF s.y.dim = 2 THEN [s.y EXCEPT !.dim = 1] ELSE s.y,
         mask |-> get_cat_mask(s.X),
         detector |-> 1]

\* TabularTaskManager._prepare_data; `detector` counts the calls of get_cat_mask
_prepare_data(d, training) ==
    LET loaded == IF d.form = "path" THEN read_data(d) ELSE d
        s == clean_data_split(split_features(loaded))
    IN  [X |-> s.X,
         y |-> IF s.y.dim = 2 THEN [s.y EXCEPT !.dim = 1] ELSE s.y,
         mask |-> IF training THEN get_cat_mask(s.X) ELSE EmptyMask,
         detector |-> IF training THEN 1 ELSE 0]

-----------------------------------------------------------------------------
(* Configuration registries *)

Tiers == {"mini", "mid", "large", "x-large"}

\* one opaque estimator list per task type and tier
_default_estimators == [t \in TaskTypes |-> [tier \in Tiers |-> <<"estimators", t, tier>>]]

LearnerConfig(learner, kwargs) ==
    [pipeline |-> "SimpleTabularPipeline",
     extra_pipeline_options |-> [learner |-> learner, learner_kwargs |-> kwargs]]

SUPER_LEARNER_DEFAULT_CONFIG == LearnerConfig("SuperLearner", EmptyDict)
OPTUNA_LEARNER_DEFAULT_CONFIG == LearnerConfig("OptunaLearner", EmptyDict)
PLAIN_LEARNER_DEFAULT_CONFIG == LearnerConfig("PlainLearner", EmptyDict)

ProfileNames ==
    {"SuperLearner.mini", "SuperLearner.mid", "SuperLearner.large", "SuperLearner.xlarge",
     "OptunaLearner.hgbt", "PlainLearner.hgbt", "SuperLearner", "OptunaLearner", "PlainLearner"}

TABULAR_CLASSIFICATION_CONFIGURATIONS ==
    [n \in ProfileNames |->
        CASE n = "SuperLearner.mini" ->
                LearnerConfig("SuperLearner",
                    [cv |-> 10, base_estimators |-> _default_estimators["tabular_classification"]["mini"]])
          [] n = "SuperLearner.mid" ->
                LearnerConfig("SuperLearner",
                    [cv |-> 5, base_estimators |-> _default_estimators["tabular_classification"]["mid"]])
          [] n = "SuperLearner.large" ->
                LearnerConfig("SuperLearner",
                    [cv |-> 3, base_estimators |-> _default_estimators["tabular_classification"]["large"]])
          [] n = "SuperLearner.xlarge" ->
                LearnerConfig("SuperLearner",
                    [cv |-> 3, base_estimators |-> _default_estimators["tabular_classification"]["x-large"]])
          [] n = "OptunaLearner.hgbt" ->
                LearnerConfig("OptunaLearner", [model_class |-> "HistGradientBoostingClassifier"])
          [] n = "PlainLearner.hgbt" ->
                LearnerConfig("PlainLearner", [model_class |-> "HistGradientBoostingClassifier"])
          [] n = "SuperLearner" -> SUPER_LEARNER_DEFAULT_CONFIG
          [] n = "OptunaLearner" -> OPTUNA_LEARNER_DEFAULT_CONFIG
          [] n = "PlainLearner" -> PLAIN_LEARNER_DEFAULT_CONFIG]

\* faulty variant: the regression registry left as a copy of the classification one
TABULAR_REGRESSION_CONFIGURATIONS_copy == TABULAR_CLASSIFICATION_CONFIGURATIONS

TABULAR_REGRESSION_CONFIGURATIONS ==
    [n \in ProfileNames |->
        CASE n = "SuperLearner.mini" ->
                LearnerConfig("SuperLearner",
                    [cv |-> 10, base_estimators |-> _default_estimators["tabular_regression"]["mini"]])
          [] n = "SuperLearner.mid" ->
                LearnerConfig("SuperLearner",
                    [cv |-> 5, base_estimators |-> _default_estimators["tabular_regression"]["mid"]])
          [] n = "SuperLearner.large" ->
                LearnerConfig("SuperLearner",
                    [cv |-> 3, base_estimators |-> _default_estimators["tabular_regression"]["large"]])
          [] n = "SuperLearner.xlarge" ->
                LearnerConfig("SuperLearner",
                    [cv |-> 3, base_estimators |-> _default_estimators["tabular_regression"]["x-large"]])
          [] n = "OptunaLearner.hgbt" ->
                LearnerConfig("OptunaLearner", [model_class |-> "HistGradientBoostingRegressor"])
          [] n = "PlainLearner.hgbt" ->
                LearnerConfig("PlainLearner", [model_class |-> "HistGradientBoostingRegressor"])
          [] n = "SuperLearner" -> SUPER_LEARNER_DEFAULT_CONFIG
          [] n = "OptunaLearner" -> OPTUNA_LEARNER_DEFAULT_CONFIG
          [] n = "PlainLearner" -> PLAIN_LEARNER_DEFAULT_CONFIG]

\* exact-string lookup of a profile in the registry of the task type
resolve(name, t) ==
    IF t = "tabular_classification"
    THEN TABULAR_CLASSIFICATION_CONFIGURATIONS[name]
    ELSE TABULAR_REGRESSION_CONFIGURATIONS[name]

-----------------------------------------------------------------------------
(* The pipeline: a fit/predict black box.  Its state is what it was        *)
(* constructed with and what it was last fitted on.                        *)

NewPipeline(cls, opts) ==
    [cls |-> cls, options |-> opts, fitted |-> FALSE, fitSrc |-> "none", fitRows |-> 0, fitCols |-> 0]

\* pipeline.fit(X, y) that completes
PipelineFit(p, X, y) ==
    [p EXCEPT !.fitted = TRUE, !.fitSrc = X.src, !.fitRows = X.rows, !.fitCols = X.cols]

\* pipeline.predict(X): fails on an unfit pipeline and on a column-count mismatch,
\* otherwise the prediction is decided by the fitted model and the input
PipelinePredict(p, X) ==
    IF ~p.fitted THEN [status |-> "raised", error |-> "NotFitted", out |-> None]
    ELSE IF X.cols # p.fitCols THEN [status |-> "raised", error |-> "DataShapeError", out |-> None]
    ELSE [status |-> "returned", error |-> "none",
          out |-> Some([model |-> <<p.fitSrc, p.fitRows>>, input |-> X.src, len |-> X.rows])]

\* faulty variant: no copy is made, the same object is referred to
deepcopy_alias(h, ref) == [ref |-> ref, heap |-> h]

\* copy.deepcopy: a new object with the state of the one referred to
deepcopy(h, ref) == [ref |-> "copy", heap |-> ("copy" :> h[ref]) @@ h]

\* sklearn's train_test_split: n_test = ceil(test_size * n), n_train = n - n_test
train_test_split(X, y) ==
    LET n_test == (X.rows * TestPercent + 99) \div 100
        n_train == X.rows - n_test
    IN  [X_train |-> [X EXCEPT !.rows = n_train], X_test |-> [X EXCEPT !.rows = n_test],
         y_train |-> [y EXCEPT !.rows = n_train], y_test |-> [y EXCEPT !.rows = n_test]]

\* falcon.utils.set_verbosity_level: writes the process-wide level
set_verbosity_level(level) == Some(level)

\* int(os.getenv("FALCON_VERBOSITYLEVEL", "1"))
getenv_level(e) == IF e = None THEN DefaultVerbosity ELSE e[1]

\* faulty variant: the cell threshold taken inclusively
UseCV_inclusive(X) == X.rows * X.cols <= CellThreshold \/ X.rows < RowThreshold

\* the branch of the pre-evaluation: TRUE for the cross-validated score
UseCV(X) == X.rows * X.cols < CellThreshold \/ X.rows < RowThreshold

-----------------------------------------------------------------------------
(* Construction *)

default_pipeline == "SimpleTabularPipeline"

\* faulty variant: the defaults carry an empty mask
default_pipeline_options_empty_mask(dat) == [mask |-> EmptyMask]

default_pipeline_options(dat) == [mask |-> dat.mask]

\* extra options are added to the defaults; a default is not replaced
MergeOptions(defaults, extra) ==
    [k \in DOMAIN defaults \cup DOMAIN extra |-> IF k \in DOMAIN defaults THEN defaults[k] ELSE extra[k]]

EffectiveOptions(defaults, pipeline_options, extra_pipeline_options) ==
    IF pipeline_options # None THEN pipeline_options[1]
    ELSE IF extra_pipeline_options # None THEN MergeOptions(defaults, extra_pipeline_options[1])
    ELSE defaults

\* the constructor arguments tried: every profile of the task's registry, and
\* explicit pipeline_options / extra_pipeline_options in every combination
ExplicitOptions == [learner |-> "PlainLearner"]
ExtraOptions ==
    { [learner |-> "OptunaLearner", learner_kwargs |-> EmptyDict],
      [learner |-> "SuperLearner", mask |-> [len |-> 1, cat |-> {1}]] }

ConstructorArgs(t) ==
    { [profile |-> Some(n), pipeline |-> Some(resolve(n, t).pipeline), pipeline_options |-> None,
       extra_pipeline_options |-> Some(resolve(n, t).extra_pipeline_options)] : n \in ProfileNames }
    \cup
    { [profile |-> None, pipeline |-> None, pipeline_options |-> po, extra_pipeline_options |-> ex] :
        po \in {None, Some(ExplicitOptions)}, ex \in {None} \cup {Some(e) : e \in ExtraOptions} }

NoFrame == [pre_eval |-> FALSE, old_verbosity_level |-> None, avg_score |-> None,
            copied_pipeline |-> None, split |-> None]

NoCall == [active |-> FALSE, pre_eval |-> FALSE, fresh |-> FALSE, env0 |-> None,
           cv |-> 0, split |-> 0, copies |-> 0, copy_fit_calls |-> 0, main_fit_calls |-> 0,
           verbosity_writes |-> 0, prints |-> 0, printed |-> None, failed |-> None]

NoOp == [op |-> "none", status |-> "none"]

\* the state after TabularTaskManager(task, d, **a), for d in `datasets` and a in args[task]
Constructed(datasets, args, envs) ==
    /\ task \in TaskTypes
    /\ \E d \in datasets, a \in args[task] :
          /\ data = _prepare_data(d, TRUE)
          /\ profile = a
          /\ options = EffectiveOptions(default_pipeline_options(data), a.pipeline_options,
                                        a.extra_pipeline_options)
          /\ heap = [primary |->
                        NewPipeline(IF a.pipeline = None THEN default_pipeline ELSE a.pipeline[1],
                                    options)]
    /\ env \in envs
    /\ pc = "idle"
    /\ frame = NoFrame
    /\ call = NoCall
    /\ last = NoOp
    /\ prev = NoOp
    /\ ops = 0

\* every training set and verbosity level, under the "PlainLearner" profile or no options
TrainArgs(t) == { a \in ConstructorArgs(t) :
                    \/ a.profile = Some("PlainLearner")
                    \/ a.profile = None /\ a.pipeline_options = None /\ a.extra_pipeline_options = None }

Init == Constructed(TrainSets, [t \in TaskTypes |-> TrainArgs(t)], {None} \cup {Some(l) : l \in 0..MaxVerbosity})

\* every constructor argument, on one training set of each pre-evaluation branch
ConfigSets == { d \in TrainSets : d.id \in {"d400x3", "d500x100"} }

InitConfig == Constructed(ConfigSets, [t \in TaskTypes |-> ConstructorArgs(t)], {None})

-----------------------------------------------------------------------------
(* The scoring service *)

\* tab_cv_score(pipeline, X, y, task): the per-fold scores.  Whether the scorer
\* fits the pipeline it is handed or clones of it is not decided here: both happen.
CvFolds == 10
tab_cv_score(h, ref, X, inplace) ==
    [heap |-> IF inplace
              THEN [h EXCEPT ![ref] = PipelineFit(h[ref], [X EXCEPT !.rows = X.rows - X.rows \div CvFolds], X)]
              ELSE h,
     score |-> [kind |-> "cv", rows |-> X.rows]]

\* calculate_model_score(y_test, pred, task)
calculate_model_score(y_test, pred, t) == [kind |-> "split", rows |-> y_test.rows]

-----------------------------------------------------------------------------
(* train, step by step.  Every step that calls a collaborator either       *)
(* completes or raises; nothing in train catches an exception.             *)

Primary == "primary"

\* the frame of train is dropped: its locals, and the copy they referred to
Leave(h) == [primary |-> h[Primary]]

\* a collaborator raised `err` while train stood at `at`
Failure(at, err) == Some([at |-> at, error |-> err])

Returned(out) == [op |-> "train", status |-> "returned", error |-> "none", out |-> Some(out)]
Raised(err) == [op |-> "train", status |-> "raised", error |-> err, out |-> None]

\* lines 132-138, or straight to line 156 when pre_eval is false
train(pre_eval) ==
    /\ pc = "idle"
    /\ ops < MaxOps
    /\ ops' = ops + 1
    /\ IF pre_eval
       THEN /\ frame' = [NoFrame EXCEPT !.pre_eval = TRUE,
                                        !.old_verbosity_level = Some(getenv_level(env))]
            /\ env' = set_verbosity_level(SilentLevel)
            /\ call' = [NoCall EXCEPT !.active = TRUE, !.pre_eval = TRUE, !.env0 = env,
                                      !.fresh = ~heap[Primary].fitted, !.verbosity_writes = 1]
            /\ pc' = "pre_eval"
       ELSE /\ frame' = NoFrame
            /\ env' = env
            /\ call' = [NoCall EXCEPT !.active = TRUE, !.env0 = env, !.fresh = ~heap[Primary].fitted]
            /\ pc' = "main_fit"
    /\ UNCHANGED <<task, data, options, profile, heap, last, prev>>

\* lines 143-146
train_cv_score ==
    /\ pc = "pre_eval"
    /\ UseCV(data.X)
    /\ \E ok \in BOOLEAN, inplace \in BOOLEAN :
          LET r == tab_cv_score(heap, Primary, data.X, inplace)
          IN  /\ IF ok
                 THEN /\ call' = [call EXCEPT !.cv = @ + 1]
                      /\ heap' = r.heap
                      /\ frame' = [frame EXCEPT !.avg_score = Some(r.score)]
                      /\ pc' = "restore"
                      /\ UNCHANGED <<last, prev>>
                 ELSE /\ call' = [call EXCEPT !.cv = @ + 1, !.failed = Failure(pc, "ScoreFailure")]
                      /\ heap' = Leave(r.heap)
                      /\ frame' = NoFrame
                      /\ pc' = "idle"
                      /\ prev' = last
                      /\ last' = Raised("ScoreFailure")
    /\ UNCHANGED <<task, data, options, profile, env, ops>>

\* lines 148-151
train_split ==
    /\ pc = "pre_eval"
    /\ ~UseCV(data.X)
    /\ LET c == deepcopy(heap, Primary)
       IN  /\ heap' = c.heap
           /\ frame' = [frame EXCEPT !.split = Some(train_test_split(data.X, data.y)),
                                     !.copied_pipeline = Some(c.ref)]
    /\ call' = [call EXCEPT !.split = @ + 1, !.copies = @ + 1]
    /\ pc' = "copy_fit"
    /\ UNCHANGED <<task, data, options, profile, env, last, prev, ops>>

\* faulty variant: a failure of the copy's fit is caught and training goes on
train_copy_fit_swallow ==
    /\ pc = "copy_fit"
    /\ \E ok \in BOOLEAN :
          IF ok
          THEN /\ call' = [call EXCEPT !.copy_fit_calls = @ + 1]
               /\ heap' = [heap EXCEPT ![frame.copied_pipeline[1]] =
                              PipelineFit(@, frame.split[1].X_train, frame.split[1].y_train)]
               /\ pc' = "copy_score"
               /\ UNCHANGED <<frame, last, prev>>
          ELSE /\ call' = [call EXCEPT !.copy_fit_calls = @ + 1, !.failed = Failure(pc, "FitFailure")]
               /\ frame' = [frame EXCEPT !.avg_score = Some([kind |-> "none", rows |-> 0])]
               /\ pc' = "restore"
               /\ UNCHANGED <<heap, last, prev>>
    /\ UNCHANGED <<task, data, options, profile, env, ops>>

\* line 152
train_copy_fit ==
    /\ pc = "copy_fit"
    /\ \E ok \in BOOLEAN :
          IF ok
          THEN /\ call' = [call EXCEPT !.copy_fit_calls = @ + 1]
               /\ heap' = [heap EXCEPT ![frame.copied_pipeline[1]] =
                              PipelineFit(@, frame.split[1].X_train, frame.split[1].y_train)]
               /\ pc' = "copy_score"
               /\ UNCHANGED <<frame, last, prev>>
          ELSE /\ call' = [call EXCEPT !.copy_fit_calls = @ + 1, !.failed = Failure(pc, "FitFailure")]
               /\ heap' = Leave(heap)
               /\ frame' = NoFrame
               /\ pc' = "idle"
               /\ prev' = last
               /\ last' = Raised("FitFailure")
    /\ UNCHANGED <<task, data, options, profile, env, ops>>

\* lines 153-154
train_copy_score ==
    /\ pc = "copy_score"
    /\ LET pred == PipelinePredict(heap[frame.copied_pipeline[1]], frame.split[1].X_test)
       IN  \E ok \in BOOLEAN :
              IF ok /\ pred.status = "returned"
              THEN /\ frame' = [frame EXCEPT !.avg_score =
                                   Some(calculate_model_score(frame.split[1].y_test, pred.out[1], task))]
                   /\ pc' = "restore"
                   /\ UNCHANGED <<heap, call, last, prev>>
              ELSE /\ call' = [call EXCEPT !.failed =
                                  Failure(pc, IF pred.status = "returned" THEN "ScoreFailure" ELSE pred.error)]
                   /\ heap' = Leave(heap)
                   /\ frame' = NoFrame
                   /\ pc' = "idle"
                   /\ prev' = last
                   /\ last' = Raised(IF pred.status = "returned" THEN "ScoreFailure" ELSE pred.error)
    /\ UNCHANGED <<task, data, options, profile, env, ops>>

\* line 155
train_restore ==
    /\ pc = "restore"
    /\ env' = set_verbosity_level(frame.old_verbosity_level[1])
    /\ call' = [call EXCEPT !.verbosity_writes = @ + 1]
    /\ pc' = "main_fit"
    /\ UNCHANGED <<task, data, options, profile, heap, frame, last, prev, ops>>

\* faulty variant: the main fit is given the 75% split when there is one
train_main_fit_on_split ==
    /\ pc = "main_fit"
    /\ \E ok \in BOOLEAN :
          IF ok
          THEN /\ call' = [call EXCEPT !.main_fit_calls = @ + 1]
               /\ heap' = [heap EXCEPT ![Primary] =
                              IF frame.split = None
                              THEN PipelineFit(@, data.X, data.y)
                              ELSE PipelineFit(@, frame.split[1].X_train, frame.split[1].y_train)]
               /\ pc' = "finish"
               /\ UNCHANGED <<frame, last, prev>>
          ELSE /\ call' = [call EXCEPT !.main_fit_calls = @ + 1, !.failed = Failure(pc, "FitFailure")]
               /\ heap' = Leave(heap)
               /\ frame' = NoFrame
               /\ pc' = "idle"
               /\ prev' = last
               /\ last' = Raised("FitFailure")
    /\ UNCHANGED <<task, data, options, profile, env, ops>>

\* lines 156-157
train_main_fit ==
    /\ pc = "main_fit"
    /\ \E ok \in BOOLEAN :
          IF ok
          THEN /\ call' = [call EXCEPT !.main_fit_calls = @ + 1]
               /\ heap' = [heap EXCEPT ![Primary] = PipelineFit(@, data.X, data.y)]
               /\ pc' = "finish"
               /\ UNCHANGED <<frame, last, prev>>
          ELSE /\ call' = [call EXCEPT !.main_fit_calls = @ + 1, !.failed = Failure(pc, "FitFailure")]
               /\ heap' = Leave(heap)
               /\ frame' = NoFrame
               /\ pc' = "idle"
               /\ prev' = last
               /\ last' = Raised("FitFailure")
    /\ UNCHANGED <<task, data, options, profile, env, ops>>

\* faulty variant: the score line is printed whether or not pre-evaluation ran
train_finish_always_prints ==
    /\ pc = "finish"
    /\ call' = [call EXCEPT !.prints = @ + 1, !.printed = frame.avg_score]
    /\ heap' = Leave(heap)
    /\ frame' = NoFrame
    /\ pc' = "idle"
    /\ prev' = last
    /\ last' = Returned("self")
    /\ UNCHANGED <<task, data, options, profile, env, ops>>

\* lines 158-161
train_finish ==
    /\ pc = "finish"
    /\ call' = IF frame.pre_eval
               THEN [call EXCEPT !.prints = @ + 1, !.printed = frame.avg_score]
               ELSE call
    /\ heap' = Leave(heap)
    /\ frame' = NoFrame
    /\ pc' = "idle"
    /\ prev' = last
    /\ last' = Returned("self")
    /\ UNCHANGED <<task, data, options, profile, env, ops>>

-----------------------------------------------------------------------------
(* predict, predict_train_set, evaluate: each runs to completion *)

asarray(d) == [src |-> d.src, form |-> "ndarray", rows |-> d.rows, cols |-> d.cols]

\* faulty variant: predict fits the pipeline on what it is given
predict_refits(h, d) ==
    LET loaded == IF d.form = "path" THEN read_data(d) ELSE d
        arr == IF loaded.form # "ndarray" THEN asarray(loaded) ELSE loaded
        r == PipelinePredict(h[Primary], arr)
    IN  [heap |-> [h EXCEPT ![Primary] = PipelineFit(@, arr, arr)],
         status |-> r.status, error |-> r.error, out |-> r.out]

\* lines 177-181: the objects after the call, and what the call gave
predict(h, d) ==
    LET loaded == IF d.form = "path" THEN read_data(d) ELSE d
        arr == IF loaded.form # "ndarray" THEN asarray(loaded) ELSE loaded
        r == PipelinePredict(h[Primary], arr)
    IN  [heap |-> h, status |-> r.status, error |-> r.error, out |-> r.out]

\* line 192
predict_train_set(h, dat) == predict(h, dat.X)

\* lines 204-210
evaluate(h, dat, t, test_data) ==
    LET p == _prepare_data(test_data, FALSE)
        r == predict(h, p.X)
    IN  [heap |-> r.heap, data |-> dat, status |-> r.status, error |-> r.error,
         mask |-> p.mask, detector |-> p.detector,
         out |-> IF r.status = "returned"
                 THEN Some([report |-> IF t = "tabular_classification"
                                       THEN "print_classification_report"
                                       ELSE "print_regression_report",
                            y_true |-> p.y, y_pred |-> r.out[1]])
                 ELSE None]

PredictCall ==
    /\ pc = "idle"
    /\ ops < MaxOps
    /\ \E d \in PredictInputs(data.X.cols) :
          LET r == predict(heap, d)
          IN  /\ heap' = r.heap
              /\ last' = [op |-> "predict", input |-> d, status |-> r.status, error |-> r.error,
                          out |-> r.out]
    /\ prev' = last
    /\ ops' = ops + 1
    /\ UNCHANGED <<task, data, options, profile, env, pc, frame, call>>

PredictTrainSetCall ==
    /\ pc = "idle"
    /\ ops < MaxOps
    /\ LET r == predict_train_set(heap, data)
       IN  /\ heap' = r.heap
           /\ last' = [op |-> "predict_train_set", input |-> data.X, status |-> r.status,
                       error |-> r.error, out |-> r.out]
    /\ prev' = last
    /\ ops' = ops + 1
    /\ UNCHANGED <<task, data, options, profile, env, pc, frame, call>>

EvaluateCall ==
    /\ pc = "idle"
    /\ ops < MaxOps
    /\ \E d \in TestSets(data.X.cols) :
          LET r == evaluate(heap, data, task, d)
          IN  /\ heap' = r.heap
              /\ data' = r.data
              /\ last' = [op |-> "evaluate", input |-> d, status |-> r.status, error |-> r.error,
                          mask |-> r.mask, detector |-> r.detector, out |-> r.out]
    /\ prev' = last
    /\ ops' = ops + 1
    /\ UNCHANGED <<task, options, profile, env, pc, frame, call>>

Next ==
    \/ \E pre_eval \in BOOLEAN : train(pre_eval)
    \/ train_cv_score
    \/ train_split
    \/ train_copy_fit
    \/ train_copy_score
    \/ train_restore
    \/ train_main_fit
    \/ train_finish
    \/ PredictCall
    \/ PredictTrainSetCall
    \/ EvaluateCall

Spec == Init /\ [][Next]_vars

SpecConfig == InitConfig /\ [][Next]_vars

-----------------------------------------------------------------------------
(* Properties *)

PreEvalBlock == {"pre_eval", "copy_fit", "copy_score", "restore"}

\* C1: in a call train(pre_eval=true) the verbosity level is the silent level
\* while the pre-evaluation block runs, and on every exit from that block, by
\* completing or by a collaborator raising, it is again what it was before the call.
C1_VerbosityRestoredOnEveryExit ==
    (call.active /\ call.pre_eval) =>
        IF pc \in PreEvalBlock
        THEN getenv_level(env) = SilentLevel
        ELSE getenv_level(env) = getenv_level(call.env0)

\* C2: in a call train(pre_eval=true), once the branch is taken: with
\* rows*cols < 50000 or rows < 500 the cross-validated path has run once and the
\* split path not at all; otherwise the split path once and the CV path not at
\* all.  Before the branch neither has run.
C2_BranchByShape ==
    (call.active /\ call.pre_eval) =>
        LET rows == data.X.rows
            cols == data.X.cols
        IN  IF pc = "pre_eval" THEN call.cv = 0 /\ call.split = 0
            ELSE IF rows * cols < 50000 \/ rows < 500
                 THEN call.cv = 1 /\ call.split = 0
                 ELSE call.cv = 0 /\ call.split = 1

C2_Witness ==
    /\ call.active /\ call.pre_eval
    /\ data.X.rows = 500 /\ data.X.cols = 100
    /\ call.split = 1 /\ call.cv = 0
    /\ pc = "main_fit"

\* C3: on a manager whose pipeline was unfit when train(pre_eval=true) began and
\* whose data take the split branch, the pipeline fitted during pre-evaluation is
\* another object than the primary pipeline, and the primary pipeline is unfit
\* from the split up to the main fit.
C3_PrimaryUnfitBeforeMainFit ==
    (call.active /\ call.pre_eval /\ call.fresh /\ call.split = 1
        /\ pc \in {"copy_fit", "copy_score", "restore", "main_fit"}) =>
        /\ ~heap[Primary].fitted
        /\ heap[Primary] = NewPipeline(heap[Primary].cls, options)
        /\ frame.copied_pipeline # None
        /\ frame.copied_pipeline[1] # Primary
        /\ pc # "copy_fit" =>
              /\ heap[frame.copied_pipeline[1]].fitted
              /\ heap[frame.copied_pipeline[1]].fitRows < data.X.rows

C3_Witness ==
    /\ call.active /\ call.pre_eval /\ call.fresh /\ call.split = 1
    /\ pc = "main_fit"
    /\ ~heap[Primary].fitted
    /\ heap["copy"].fitted

\* C4: a call of train that returns has called fit on the primary pipeline once,
\* on all rows of the prepared data, not before the pre-evaluation block was
\* over, and returns the manager itself.
C4_ReturnsAfterOneFullFit ==
    /\ (call.active /\ pc \in PreEvalBlock) => call.main_fit_calls = 0
    /\ (pc = "idle" /\ last.op = "train" /\ last.status = "returned") =>
          /\ call.main_fit_calls = 1
          /\ heap[Primary].fitted
          /\ heap[Primary].fitSrc = data.X.src
          /\ heap[Primary].fitRows = data.X.rows
          /\ heap[Primary].fitCols = data.X.cols
          /\ last.out = Some("self")

C4_Witness ==
    /\ pc = "idle" /\ last.op = "train" /\ last.status = "returned"
    /\ call.pre_eval /\ call.split = 1
    /\ heap[Primary].fitRows = data.X.rows

\* C5: once a collaborator has raised inside train, train is over: the caller
\* gets that very failure, fit was called at most once on each pipeline, and
\* after a failure in the pre-evaluation block the main fit was not called.
C5_FailurePropagates ==
    call.failed # None =>
        /\ pc = "idle"
        /\ call.copy_fit_calls <= 1
        /\ call.main_fit_calls = (IF call.failed[1].at = "main_fit" THEN 1 ELSE 0)
        /\ last.op = "train" => (last.status = "raised" /\ last.error = call.failed[1].error)

C5_Witness ==
    /\ call.failed # None
    /\ call.failed[1].at = "copy_fit"
    /\ last.op = "train" /\ last.status = "raised" /\ last.error = "FitFailure"
    /\ call.main_fit_calls = 0

C7_EvaluateLeavesStateAlone ==
    [][(ops' = ops + 1 /\ pc' = "idle" /\ last'.op = "evaluate") =>
          /\ last'.mask = EmptyMask
          /\ last'.detector = 0
          /\ data' = data
          /\ heap' = heap
          /\ (last.op = "evaluate" /\ last.input = last'.input) =>
                (last'.status = last.status /\ last'.out = last.out)]_vars

C7_Witness ==
    /\ last.op = "evaluate" /\ prev.op = "evaluate"
    /\ last.input = prev.input
    /\ last.status = "returned"
    /\ last.out = prev.out
    /\ last.mask = EmptyMask

\* C8: predict and predict_train_set on a fitted manager change no pipeline and
\* not the stored data, call no fit, and give what the same call gave just
\* before on the same input; predict_train_set is predict on the stored features.
C8_PredictOnlyDelegates ==
    [][(ops' = ops + 1 /\ pc' = "idle" /\ last'.op \in {"predict", "predict_train_set"}
            /\ heap[Primary].fitted) =>
          /\ heap' = heap
          /\ data' = data
          /\ call' = call
          /\ last'.op = "predict_train_set" => last'.input = data.X
          /\ (last.op = last'.op /\ last.input = last'.input) =>
                (last'.status = last.status /\ last'.out = last.out)]_vars

C8_Witness ==
    /\ last.op = "predict" /\ prev.op = "predict"
    /\ last.input = prev.input
    /\ last.status = "returned" /\ last.out = prev.out
    /\ heap[Primary].fitted

\* C9: in both registries the tiered Super-Learner profiles have learner Super,
\* 10, 5, 3, 3 folds for the mini, mid, large, x-large tiers and the estimator
\* list of that tier and task type; a manager built from such a profile is handed them.
TieredProfiles ==
    { <<"SuperLearner.mini", "mini", 10>>, <<"SuperLearner.mid", "mid", 5>>,
      <<"SuperLearner.large", "large", 3>>, <<"SuperLearner.xlarge", "x-large", 3>> }

C9_TieredProfiles ==
    /\ \A t \in TaskTypes : \A p \in TieredProfiles :
          LET c == (IF t = "tabular_classification"
                    THEN TABULAR_CLASSIFICATION_CONFIGURATIONS
                    ELSE TABULAR_REGRESSION_CONFIGURATIONS)[p[1]].extra_pipeline_options
          IN  /\ c.learner = "SuperLearner"
              /\ c.learner_kwargs.cv = p[3]
              /\ c.learner_kwargs.base_estimators = _default_estimators[t][p[2]]
    /\ \A p \in TieredProfiles :
          profile.profile = Some(p[1]) =>
              LET c == profile.extra_pipeline_options[1]
              IN  /\ c.learner = "SuperLearner"
                  /\ c.learner_kwargs.cv = p[3]
                  /\ c.learner_kwargs.base_estimators = _default_estimators[task][p[2]]

C9_Witness ==
    /\ profile.profile = Some("SuperLearner.mid")
    /\ task = "tabular_classification"
    /\ profile.extra_pipeline_options[1].learner = "SuperLearner"
    /\ profile.extra_pipeline_options[1].learner_kwargs =
          [cv |-> 5, base_estimators |-> _default_estimators["tabular_classification"]["mid"]]
    /\ heap[Primary].fitted

\* C10: a call train(pre_eval=false) runs neither scoring path, makes no copy,
\* writes no verbosity level and prints no score; a score is printed once, by a
\* call with pre_eval=true, after its main fit has completed on the full data.
C10_NoPreEvalNoSideEffects ==
    /\ (call.active /\ ~call.pre_eval) =>
          /\ call.cv = 0 /\ call.split = 0 /\ call.copies = 0 /\ call.copy_fit_calls = 0
          /\ call.verbosity_writes = 0
          /\ call.prints = 0
          /\ env = call.env0
          /\ DOMAIN heap = {Primary}
    /\ call.prints > 0 =>
          /\ call.prints = 1
          /\ call.pre_eval
          /\ call.main_fit_calls = 1
          /\ call.failed = None
          /\ call.printed # None

C10_Witness ==
    /\ pc = "idle" /\ last.op = "train" /\ last.status = "returned"
    /\ ~call.pre_eval
    /\ call.main_fit_calls = 1
    /\ call.prints = 0

====
